---- MODULE Spec2Model ----
(***************************************************************************)
(* A model of solnlib's modular input lifecycle engine                     *)
(* (src/solnlib/modular_input/modular_input.py, class ModularInput).       *)
(*                                                                         *)
(* One engine instance is modelled.  The subclass-supplied operations      *)
(* (do_run, do_validation, extra_arguments) and the script around          *)
(* execute() are sequences of "user steps": reads of the engine's          *)
(* properties, accesses of its lazily built handles, registrations of an   *)
(* orphan handler and changes of the two backend flags.  execute() is cut  *)
(* where it hands control to such an operation and between the two         *)
(* statements of its finally block.                                        *)
(*                                                                         *)
(* Spec is the engine on its main thread, in all four modes.               *)
(* SpecConcurrent is RunMode with the orphan monitor's background check    *)
(* and the delivery of teardown signals interleaved.  SpecCss is one call  *)
(* of a function wrapped by net_utils.check_css_params.                    *)
(*                                                                         *)
(* Python values: None is the string "None"; a str is either a TLA+ string *)
(* (an opaque value) or, where the code inspects or rewrites its           *)
(* characters (argv, exception messages, XML output), a sequence of        *)
(* one-character strings.  A port number is written as its numeral.        *)
(***************************************************************************)
EXTENDS Integers, Sequences, FiniteSets, TLC

VARIABLES
    \* ---- ModularInput instance attributes (__init__, lines 98-112)
    meta,                     \* the seven metadata attributes
    _checkpointer,
    _event_writer,
    _orphan_monitor,
    \* ---- class attributes a subclass overrides (lines 85-96)
    use_external_validation,
    use_single_instance,
    use_kvstore_checkpoint,
    use_hec_event_writer,
    hec_input_name,
    \* ---- the process around the engine
    argv,                     \* sys.argv, as execute() finds it
    payload,                  \* what execute() read from sys.stdin
    stdout,                   \* what was written to sys.stdout
    stderr,                   \* what was written to sys.stderr
    log,                      \* the records handed to logging
    \* ---- control state of execute()
    pc,
    ret,                      \* the value of the return statement reached
    outcome,                  \* how execute() ended
    \* ---- observations
    steps,                    \* user steps taken so far
    last,                     \* the last user step and what it got
    do_run_calls,             \* the calls of do_run: inputs and metadata seen
    close_calls,              \* calls of the event writer's close()
    stop_calls,               \* calls of the orphan monitor's stop()
    hec_attempts,             \* calls of the HECEventWriter constructor
    constructed,              \* objects constructed so far, per handle
    user_end,                 \* how the user operation ended
    entry,                    \* the engine as execute() found it
    touched,                  \* handle operations of user steps since then
    \* ---- what runs beside the main thread
    teardown,                 \* the handlers installed for SIGTERM / SIGINT
    registered,               \* the register_teardown_handler calls so far
    teardown_calls,           \* the teardown handlers invoked, with arguments
    signals,                  \* teardown signals delivered
    orphan_calls,             \* the orphan handlers invoked by the monitor
    \* ---- net_utils.check_css_params
    css                       \* a call of a wrapped function and its result

engine == <<meta, _checkpointer, _event_writer, _orphan_monitor>>
config == <<use_external_validation, use_single_instance, hec_input_name>>
flags  == <<use_kvstore_checkpoint, use_hec_event_writer>>
io     == <<argv, payload, stdout, stderr, log>>
ctl    == <<pc, ret, outcome>>
hist   == <<user_end, entry, touched>>
obs    == <<steps, last, do_run_calls, close_calls, stop_calls, hec_attempts,
            constructed, hist>>
handles == <<_checkpointer, _event_writer, _orphan_monitor>>
bg     == <<teardown, registered, teardown_calls, signals, orphan_calls>>
vars   == <<engine, config, flags, io, ctl, obs, bg, css>>

(***************************************************************************)
(* Bounds of the model.                                                    *)
(***************************************************************************)
MaxUserSteps == 3
MaxSignals == 1
MaxOrphanCalls == 2
MaxPositional == 2

None == "None"


(***************************************************************************)
(* Strings the code inspects, as sequences of characters.                  *)
(***************************************************************************)
Prog == <<"m", "i">>
ArgScheme == <<"-", "-", "s", "c", "h", "e", "m", "e">>
ArgSchemeUpper == <<"-", "-", "S", "C", "H", "E", "M", "E">>
ArgValidate ==
    <<"-", "-", "v", "a", "l", "i", "d", "a", "t", "e",
      "-", "a", "r", "g", "u", "m", "e", "n", "t", "s">>
ArgValidateMixed ==
    <<"-", "-", "V", "a", "l", "i", "d", "a", "t", "e",
      "-", "A", "r", "g", "u", "m", "e", "n", "t", "s">>
ArgBogus == <<"-", "-", "b", "o", "g", "u", "s">>

\* The values sys.argv takes in the model.
Argvs ==
    { <<Prog>>,
      <<Prog, ArgScheme>>, <<Prog, ArgSchemeUpper>>,
      <<Prog, ArgValidate>>, <<Prog, ArgValidateMixed>>,
      <<Prog, ArgBogus>>, <<Prog, ArgBogus, ArgScheme>> }

\* A comparison that leaves the letter case as it is.
lower_keeps_case(s) == s

\* str.lower() on the letters that occur in Argvs.
LowerChar(c) ==
    CASE c = "A" -> "a" [] c = "C" -> "c" [] c = "E" -> "e" [] c = "H" -> "h"
      [] c = "M" -> "m" [] c = "S" -> "s" [] c = "V" -> "v"
      [] OTHER -> c

lower(s) == [i \in 1..Len(s) |-> LowerChar(s[i])]

\* The messages of the exceptions a user operation raises: the empty
\* message, plain text, text with the characters XML escapes, and text
\* that reads as an XML entity.
Messages ==
    { <<>>,
      <<"a">>,
      <<"<">>,
      <<"a", "&", ">">>,
      <<"&", "l", "t", ";">> }

\* The message of the assertion of line 225.
AssertMsg ==
    <<"h", "e", "c", "_", "i", "n", "p", "u", "t", "_", "n", "a", "m", "e",
      " ", "i", "s", " ", "n", "o", "t", " ", "s", "e", "t">>


(***************************************************************************)
(* xml.etree.ElementTree as execute() uses it: an element is a record      *)
(* [tag, text, children]; an element without text has text <<>> (None and  *)
(* '' are both false where the serializer tests the text).                 *)
(***************************************************************************)
Element(tag) == [tag |-> tag, text |-> <<>>, children |-> <<>>]

\* ET.SubElement(parent, tag) followed by the assignment of its text.
SubElementWithText(parent, tag, text) ==
    [parent EXCEPT !.children =
        Append(@, [tag |-> tag, text |-> text, children |-> <<>>])]

\* str.replace(old, new) for a one-character old.
RECURSIVE replace(_, _, _)
replace(text, old, new) ==
    IF text = <<>> THEN <<>>
    ELSE (IF Head(text) = old THEN new ELSE <<Head(text)>>)
             \o replace(Tail(text), old, new)

\* ElementTree._escape_cdata: "&" first, then "<", then ">".
_escape_cdata(text) ==
    replace(replace(replace(text, "&", <<"&", "a", "m", "p", ";">>),
                    "<", <<"&", "l", "t", ";">>),
            ">", <<"&", "g", "t", ";">>)

\* ElementTree._serialize_xml for elements without attributes and tails:
\* an element with neither text nor children is written as <tag />.
RECURSIVE _serialize_xml(_)
RECURSIVE _serialize_children(_)
_serialize_xml(elem) ==
    IF elem.text # <<>> \/ elem.children # <<>>
    THEN <<"<">> \o elem.tag \o <<">">>
             \o _escape_cdata(elem.text)
             \o _serialize_children(elem.children)
             \o <<"<", "/">> \o elem.tag \o <<">">>
    ELSE <<"<">> \o elem.tag \o <<" ", "/", ">">>

_serialize_children(elems) ==
    IF elems = <<>> THEN <<>>
    ELSE _serialize_xml(Head(elems)) \o _serialize_children(Tail(elems))

\* ET.tostring(element) with the default encoding: no XML declaration.
ET_tostring(elem) == _serialize_xml(elem)

TagError == <<"e", "r", "r", "o", "r">>
TagMessage == <<"m", "e", "s", "s", "a", "g", "e">>

\* Lines 397-399: the error document of ValidateMode for str(e) = msg.
ErrorDocument(msg) ==
    ET_tostring(SubElementWithText(Element(TagError), TagMessage, msg))


(***************************************************************************)
(* The payloads on standard input.  A payload is [wellformed, metadata,    *)
(* items]: whether the XML parses, the metadata items it holds (a key that *)
(* is missing is not in the domain) and its stanzas (RunMode) or           *)
(* parameters (ValidateMode).                                              *)
(***************************************************************************)
Uri1 == "https://Splunk1:8089"
Uri2 == "http://localhost"

\* urlsplit / urlparse on the URIs of the model: the hostname is lowered,
\* the port is None when the URI names none.
urlsplit(url) ==
    CASE url = Uri1 -> [geturl |-> Uri1, scheme |-> "https",
                        hostname |-> "splunk1", port |-> "8089"]
      [] url = Uri2 -> [geturl |-> Uri2, scheme |-> "http",
                        hostname |-> "localhost", port |-> None]

Metadata1 ==
    [server_host |-> "host1", server_uri |-> Uri1,
     session_key |-> "key1", checkpoint_dir |-> "/ckpt1"]
Metadata2 ==
    [server_host |-> "host2", server_uri |-> Uri2,
     session_key |-> "key2", checkpoint_dir |-> "/ckpt2"]
\* session_key is missing
Metadata3 == [server_host |-> "host1", server_uri |-> Uri1]

Items1 == [stanza1 |-> [arg1 |-> "v1"]]
Items2 == [stanza1 |-> [arg1 |-> "v2"], stanza2 |-> [arg1 |-> "v3"]]

NoPayload == [wellformed |-> FALSE, metadata |-> <<>>, items |-> <<>>, read |-> FALSE]
Malformed == [wellformed |-> FALSE, metadata |-> <<>>, items |-> <<>>, read |-> TRUE]

WellFormedPayloads ==
    { [wellformed |-> TRUE, metadata |-> Metadata1, items |-> Items1, read |-> TRUE],
      [wellformed |-> TRUE, metadata |-> Metadata2, items |-> Items2, read |-> TRUE] }

MissingFieldPayloads ==
    { [wellformed |-> TRUE, metadata |-> Metadata3, items |-> Items1, read |-> TRUE] }

Payloads == WellFormedPayloads \cup MissingFieldPayloads \cup {Malformed}

(***************************************************************************)
(* Metadata: __init__ and _update_metadata.                                *)
(***************************************************************************)
\* Lines 100-106.
InitMeta ==
    [server_host_name |-> None, server_uri |-> None, server_scheme |-> None,
     server_host |-> None, server_port |-> None, session_key |-> None,
     checkpoint_dir |-> None]

\* _update_metadata, statement by statement: a missing key raises KeyError
\* and leaves the attributes assigned before it.
_update_metadata(m, metadata) ==
    IF "server_host" \notin DOMAIN metadata
    THEN [meta |-> m, exc |-> "KeyError"]
    ELSE
    LET m1 == [m EXCEPT !.server_host_name = metadata["server_host"]] IN
    IF "server_uri" \notin DOMAIN metadata
    THEN [meta |-> m1, exc |-> "KeyError"]
    ELSE
    LET splunkd == urlsplit(metadata["server_uri"])
        m2 == [m1 EXCEPT !.server_uri = splunkd.geturl,
                         !.server_scheme = splunkd.scheme,
                         !.server_host = splunkd.hostname,
                         !.server_port = splunkd.port] IN
    IF "session_key" \notin DOMAIN metadata
    THEN [meta |-> m2, exc |-> "KeyError"]
    ELSE
    LET m3 == [m2 EXCEPT !.session_key = metadata["session_key"]] IN
    IF "checkpoint_dir" \notin DOMAIN metadata
    THEN [meta |-> m3, exc |-> "KeyError"]
    ELSE [meta |-> [m3 EXCEPT !.checkpoint_dir = metadata["checkpoint_dir"]],
          exc |-> None]

\* The properties of lines 124-182 and the attribute each returns.
Properties ==
    {"server_host_name", "server_uri", "server_scheme", "server_host",
     "server_port", "session_key"}

ReadProperty(p) == meta[p]

(***************************************************************************)
(* Handles.  An object is [kind, id, args]; NoHandle is None.              *)
(***************************************************************************)
NoHandle == [kind |-> "None", id |-> 0, args |-> <<>>]

IsNone(h) == h.kind = "None"

\* The identity of a newly constructed object: objects are numbered per
\* handle, in the order of their construction.
NewId(what) == constructed[what] + 1

Max(a, b) == IF a >= b THEN a ELSE b

\* Class attributes of lines 78 and 92.
app == "TestApp"
kvstore_checkpoint_collection_name == "solnlib_kvstore_checkpoint"

KVStoreCheckpointer(id, collection, session_key, app_, owner, scheme, host, port) ==
    [kind |-> "KVStoreCheckpointer", id |-> id,
     args |-> <<collection, session_key, app_, owner, scheme, host, port>>]

FileCheckpointer(id, checkpoint_dir) ==
    [kind |-> "FileCheckpointer", id |-> id, args |-> <<checkpoint_dir>>]

HECEventWriter(id, name, session_key, scheme, host, port) ==
    [kind |-> "HECEventWriter", id |-> id,
     args |-> <<name, session_key, scheme, host, port>>]

ClassicEventWriter(id) ==
    [kind |-> "ClassicEventWriter", id |-> id, args |-> <<>>]

\* What constructing a backend can do: succeed, or raise.
CheckpointerEnv == {"ok", "Error"}
HECEnv == {"ok", "HTTPError", "Error"}

\* A checkpointer property that does not test the memoized handle: every
\* access constructs a backend.
checkpointer_prop_rebuilds(env) ==
    IF use_kvstore_checkpoint
    THEN IF meta.server_uri = None
         THEN [handle |-> _checkpointer, exc |-> "AttributeError"]
         ELSE LET splunkd == urlsplit(meta.server_uri) IN
              IF env = "ok"
              THEN [handle |-> KVStoreCheckpointer(
                                  NewId("checkpointer"),
                                  kvstore_checkpoint_collection_name,
                                  meta.session_key, app, "nobody",
                                  splunkd.scheme, splunkd.hostname,
                                  splunkd.port),
                    exc |-> None]
              ELSE [handle |-> _checkpointer, exc |-> env]
    ELSE [handle |-> FileCheckpointer(NewId("checkpointer"),
                                      meta.checkpoint_dir),
          exc |-> None]

\* The checkpointer property (lines 196-207) under env, the outcome of the
\* constructor it may call: the value of _checkpointer afterwards and the
\* exception raised, if any.
checkpointer_prop(env) ==
    IF IsNone(_checkpointer)
    THEN IF use_kvstore_checkpoint
         THEN IF meta.server_uri = None
              THEN \* urlparse.urlparse(None)
                   [handle |-> NoHandle, exc |-> "AttributeError"]
              ELSE LET splunkd == urlsplit(meta.server_uri) IN
                   IF env = "ok"
                   THEN [handle |-> KVStoreCheckpointer(
                                       NewId("checkpointer"),
                                       kvstore_checkpoint_collection_name,
                                       meta.session_key, app, "nobody",
                                       splunkd.scheme, splunkd.hostname,
                                       splunkd.port),
                         exc |-> None]
                   ELSE [handle |-> NoHandle, exc |-> env]
         ELSE [handle |-> FileCheckpointer(NewId("checkpointer"), meta.checkpoint_dir),
               exc |-> None]
    ELSE [handle |-> _checkpointer, exc |-> None]

ErrorRecord(msg) == [level |-> "ERROR", msg |-> msg]
InfoRecord(msg) == [level |-> "INFO", msg |-> msg]

\* An event_writer property without the except clause of line 231: the
\* HTTP error of the constructor propagates.
event_writer_prop_no_fallback(env) ==
    IF ~IsNone(_event_writer)
    THEN [handle |-> _event_writer, exc |-> None, logged |-> <<>>,
          hec |-> 0]
    ELSE IF use_hec_event_writer
    THEN IF hec_input_name = ""
         THEN [handle |-> NoHandle, exc |-> "AssertionError",
               logged |-> <<>>, hec |-> 0]
         ELSE IF env = "ok"
              THEN [handle |-> HECEventWriter(NewId("event_writer"),
                                              hec_input_name,
                                              meta.session_key,
                                              meta.server_scheme,
                                              meta.server_host,
                                              meta.server_port),
                    exc |-> None, logged |-> <<>>, hec |-> 1]
              ELSE [handle |-> NoHandle, exc |-> env, logged |-> <<>>,
                    hec |-> 1]
    ELSE [handle |-> ClassicEventWriter(NewId("event_writer")),
          exc |-> None, logged |-> <<>>, hec |-> 0]

\* An event_writer property whose except clause catches every exception
\* of the constructor, not only binding.HTTPError.
event_writer_prop_catches_all(env) ==
    IF ~IsNone(_event_writer)
    THEN [handle |-> _event_writer, exc |-> None, logged |-> <<>>,
          hec |-> 0]
    ELSE IF use_hec_event_writer
    THEN IF hec_input_name = ""
         THEN [handle |-> NoHandle, exc |-> "AssertionError",
               logged |-> <<>>, hec |-> 0]
         ELSE IF env = "ok"
              THEN [handle |-> HECEventWriter(NewId("event_writer"),
                                              hec_input_name,
                                              meta.session_key,
                                              meta.server_scheme,
                                              meta.server_host,
                                              meta.server_port),
                    exc |-> None, logged |-> <<>>, hec |-> 1]
              ELSE [handle |-> ClassicEventWriter(NewId("event_writer")),
                    exc |-> None,
                    logged |->
                        <<[level |-> "ERROR",
                           msg |-> "Failed to init HECEventWriter"]>>,
                    hec |-> 1]
    ELSE [handle |-> ClassicEventWriter(NewId("event_writer")),
          exc |-> None, logged |-> <<>>, hec |-> 0]

\* The event_writer property (lines 221-239) under env: the value of
\* _event_writer afterwards, the exception raised, the records logged and
\* whether the HECEventWriter constructor was called.
event_writer_prop(env) ==
    IF ~IsNone(_event_writer)
    THEN [handle |-> _event_writer, exc |-> None, logged |-> <<>>,
          hec |-> 0]
    ELSE IF use_hec_event_writer
    THEN IF hec_input_name = ""
         THEN [handle |-> NoHandle, exc |-> "AssertionError",
               logged |-> <<>>, hec |-> 0]
         ELSE CASE env = "ok" ->
                    [handle |-> HECEventWriter(NewId("event_writer"), hec_input_name,
                                               meta.session_key,
                                               ReadProperty("server_scheme"),
                                               ReadProperty("server_host"),
                                               ReadProperty("server_port")),
                     exc |-> None, logged |-> <<>>, hec |-> 1]
                [] env = "HTTPError" ->
                    [handle |-> ClassicEventWriter(NewId("event_writer")), exc |-> None,
                     logged |-> <<ErrorRecord("Failed to init HECEventWriter")>>,
                     hec |-> 1]
                [] OTHER ->
                    [handle |-> NoHandle, exc |-> env, logged |-> <<>>,
                     hec |-> 1]
    ELSE [handle |-> ClassicEventWriter(NewId("event_writer")), exc |-> None,
          logged |-> <<>>, hec |-> 0]

(***************************************************************************)
(* The orphan process monitor (solnlib.orphan_process_monitor): Stopped or *)
(* Running, start() and stop() idempotent.                                 *)
(***************************************************************************)
NoMonitor == [kind |-> "None", id |-> 0, callback |-> None, state |-> "Stopped"]

OrphanProcessMonitor(id, callback) ==
    [kind |-> "OrphanProcessMonitor", id |-> id, callback |-> callback,
     state |-> "Stopped"]

MonitorStart(m) == [m EXCEPT !.state = "Running"]

MonitorStop(m) == [m EXCEPT !.state = "Stopped"]

\* A background loop that goes on checking after it found the parent gone.
MonitorDetect_keeps_running(m) == m

\* The background loop finds the parent gone: it invokes the callback and
\* the monitor is Stopped, in one step with respect to stop().
MonitorDetect(m) == [m EXCEPT !.state = "Stopped"]

Handlers == {"handler1", "handler2"}

\* A register_orphan_handler that starts a monitor for every handler.
register_orphan_handler_op_replaces(handler) ==
    MonitorStart(OrphanProcessMonitor(NewId("orphan_monitor"), handler))

\* register_orphan_handler (lines 347-349): the value of _orphan_monitor
\* afterwards.
register_orphan_handler_op(handler) ==
    IF IsNone(_orphan_monitor)
    THEN MonitorStart(OrphanProcessMonitor(NewId("orphan_monitor"), handler))
    ELSE _orphan_monitor


(***************************************************************************)
(* SchemeMode: _do_scheme (lines 241-263).  The scheme is kept as the      *)
(* Scheme object handed to the serializer.                                 *)
(***************************************************************************)
title == "Test modular input"
description == "This is a test modular input"

\* dict.get(key, default)
get(d, key, default) == IF key \in DOMAIN d THEN d[key] ELSE default

\* Argument.data_type_string
data_type_string == "string"

\* An Argument built with the two required-on flags exchanged.
Argument_swapped_required(argument) ==
    [name |-> argument["name"],
     title |-> get(argument, "title", None),
     description |-> get(argument, "description", None),
     validation |-> get(argument, "validation", None),
     data_type |-> get(argument, "data_type", data_type_string),
     required_on_edit |-> get(argument, "required_on_create", FALSE),
     required_on_create |-> get(argument, "required_on_edit", FALSE)]

\* Lines 249-261: the Argument built from one descriptor that has a name.
Argument(argument) ==
    [name |-> argument["name"],
     title |-> get(argument, "title", None),
     description |-> get(argument, "description", None),
     validation |-> get(argument, "validation", None),
     data_type |-> get(argument, "data_type", data_type_string),
     required_on_edit |-> get(argument, "required_on_edit", FALSE),
     required_on_create |-> get(argument, "required_on_create", FALSE)]

\* What extra_arguments() may return.
ArgLists ==
    { <<>>,
      <<[name |-> "arg1"]>>,
      <<[name |-> "arg2", title |-> "title2", data_type |-> "number",
         required_on_create |-> TRUE],
        [name |-> "arg1", description |-> "desc1", validation |-> "v1",
         required_on_edit |-> TRUE]>>,
      <<[name |-> "arg1"], [title |-> "title2"]>> }

\* Scheme.streaming_mode_xml
streaming_mode_xml == "xml"

\* Line 249: argument['name'] raises KeyError for a descriptor without it.
Named(arguments) == \A i \in 1..Len(arguments) : "name" \in DOMAIN arguments[i]

\* A _do_scheme that takes each flag of the scheme from the attribute of
\* the same name.
_do_scheme_own_flags(arguments) ==
    IF ~Named(arguments)
    THEN [exc |-> "KeyError", scheme |-> None]
    ELSE [exc |-> None,
          scheme |->
              [title |-> title,
               description |-> description,
               use_external_validation |-> use_external_validation,
               streaming_mode |-> streaming_mode_xml,
               use_single_instance |-> use_single_instance,
               arguments |->
                   [i \in 1..Len(arguments) |-> Argument(arguments[i])]]]

\* Lines 242-263: the Scheme handed to the serializer, or the exception
\* raised while building it.
_do_scheme(arguments) ==
    IF ~Named(arguments)
    THEN [exc |-> "KeyError", scheme |-> None]
    ELSE [exc |-> None,
          scheme |->
              [title |-> title,
               description |-> description,
               use_external_validation |-> use_external_validation,
               streaming_mode |-> streaming_mode_xml,
               use_single_instance |-> use_external_validation,
               arguments |->
                   [i \in 1..Len(arguments) |-> Argument(arguments[i])]]]

(***************************************************************************)
(* State of the process before execute() is called.                        *)
(***************************************************************************)
NoOutcome == [kind |-> "none", value |-> -1, exc |-> None]
Returned(v) == [kind |-> "returned", value |-> v, exc |-> None]
Raised(e) == [kind |-> "raised", value |-> -1, exc |-> e]

NoStep ==
    [op |-> "none", env |-> "ok", exc |-> None, value |-> None,
     handle |-> NoHandle, pre |-> NoHandle, logged |-> <<>>, hec |-> 0,
     handled |-> FALSE, flag |-> FALSE, unset |-> TRUE, at |-> "idle"]

MetaUnset == meta = InitMeta

NotEnded == [how |-> "none", msg |-> <<>>, value |-> <<>>]
EndReturned == [how |-> "returned", msg |-> <<>>, value |-> <<>>]
EndRaised(msg) == [how |-> "raised", msg |-> msg, value |-> <<>>]

\* The engine's attributes, as recorded when execute() is called.
Snapshot(mode) ==
    [mode |-> mode, meta |-> meta, checkpointer |-> _checkpointer,
     event_writer |-> _event_writer, orphan_monitor |-> _orphan_monitor]

\* The subclasses of the model, by the class attributes each overrides
\* (lines 85-96): every combination of the two backend flags with
\* hec_input_name set or left empty, and every combination of the two
\* scheme flags.
Subclass(kv, hec, name, ext, single) ==
    [use_kvstore_checkpoint |-> kv, use_hec_event_writer |-> hec,
     hec_input_name |-> name, use_external_validation |-> ext,
     use_single_instance |-> single]

Subclasses ==
    { Subclass(TRUE, TRUE, "hec1", FALSE, FALSE),
      Subclass(TRUE, TRUE, "", TRUE, FALSE),
      Subclass(TRUE, FALSE, "hec1", FALSE, TRUE),
      Subclass(TRUE, FALSE, "", TRUE, TRUE),
      Subclass(FALSE, TRUE, "hec1", TRUE, TRUE),
      Subclass(FALSE, TRUE, "", FALSE, TRUE),
      Subclass(FALSE, FALSE, "hec1", TRUE, FALSE),
      Subclass(FALSE, FALSE, "", FALSE, FALSE) }

\* No wrapped function is called.
NoCall ==
    [state |-> "none", f |-> None, validators |-> <<>>, args |-> <<>>,
     kwargs |-> <<>>, python |-> None, result |-> None]

\* An engine of one of the subclasses classes, before execute().
InitEngine(classes) ==
    /\ meta = InitMeta
    /\ _checkpointer = NoHandle
    /\ _orphan_monitor = NoMonitor
    /\ _event_writer = NoHandle
    /\ \E c \in classes :
        /\ use_external_validation = c.use_external_validation
        /\ use_single_instance = c.use_single_instance
        /\ use_kvstore_checkpoint = c.use_kvstore_checkpoint
        /\ use_hec_event_writer = c.use_hec_event_writer
        /\ hec_input_name = c.hec_input_name
    /\ argv = <<>>
    /\ payload = NoPayload
    /\ stdout = <<>>
    /\ stderr = <<>>
    /\ log = <<>>
    /\ pc = "idle"
    /\ ret = -1
    /\ outcome = NoOutcome
    /\ steps = 0
    /\ last = NoStep
    /\ do_run_calls = <<>>
    /\ close_calls = 0
    /\ stop_calls = 0
    /\ hec_attempts = 0
    /\ constructed =
           [checkpointer |-> 0, event_writer |-> 0, orphan_monitor |-> 0]
    /\ user_end = NotEnded
    /\ entry = Snapshot("none")
    /\ touched = {}
    /\ teardown = <<>>
    /\ registered = <<>>
    /\ teardown_calls = <<>>
    /\ signals = 0
    /\ orphan_calls = <<>>

Init == InitEngine(Subclasses) /\ css = NoCall

(***************************************************************************)
(* The handlers of execute(): what an exception does that leaves the       *)
(* operation running at pc.  lg is the log so far.                         *)
(***************************************************************************)
\* Lines 370-373: RunMode's except clause; the finally block follows.
RunExcept(lg) ==
    /\ log' = Append(lg, ErrorRecord("exit with exception"))
    /\ ret' = 1
    /\ pc' = "finally_close"
    /\ UNCHANGED <<outcome, stderr>>

\* An except clause that formats the error document itself, without
\* escaping the message.
ValidateExcept_unescaped(lg, msg) ==
    /\ log' = Append(lg, ErrorRecord("validate arguments with exception"))
    /\ stderr' = stderr \o <<"<">> \o TagError \o <<">", "<">> \o TagMessage
                         \o <<">">> \o msg \o <<"<", "/">> \o TagMessage
                         \o <<">", "<", "/">> \o TagError \o <<">">>
    /\ ret' = 1
    /\ outcome' = Returned(1)
    /\ pc' = "done"

\* Lines 393-401: ValidateMode's except clause, for str(e) = msg.
ValidateExcept(lg, msg) ==
    /\ log' = Append(lg, ErrorRecord("validate arguments with exception"))
    /\ stderr' = stderr \o ErrorDocument(msg)
    /\ ret' = 1
    /\ outcome' = Returned(1)
    /\ pc' = "done"

\* Lines 382-385: SchemeMode has no except clause.
SchemeExcept(lg, exc) ==
    /\ log' = lg
    /\ outcome' = Raised(exc)
    /\ pc' = "done"
    /\ UNCHANGED <<ret, stderr>>

Propagate(lg, exc, msg) ==
    CASE pc = "do_run" -> RunExcept(lg)
      [] pc = "do_validation" -> ValidateExcept(lg, msg)
      [] pc = "extra_arguments" -> SchemeExcept(lg, exc)

\* The operations of the subclass, and the script before execute().
UserPcs == {"idle", "do_run", "do_validation", "extra_arguments"}

\* A user step ends: normally, or with exception exc that the operation
\* handles (handled) or lets escape.
EndStep(lg, exc, handled, msg) ==
    IF exc = None \/ handled \/ pc = "idle"
    THEN log' = lg /\ UNCHANGED <<pc, ret, outcome, stderr, user_end>>
    ELSE Propagate(lg, exc, msg) /\ user_end' = EndRaised(msg)

\* Whether an exception of a user step escapes the operation.
Escapes(exc, handled) == exc # None /\ ~handled /\ pc # "idle"

Touch(op) == touched' = IF pc = "idle" THEN touched ELSE touched \cup {op}

\* str(e) for the exceptions the engine's own code raises, and for those
\* of the libraries it calls (a single representative message).
EnvMsg == <<"H", "T", "T", "P", " ", "4", "0", "4">>

\* 'NoneType' object has no attribute 'find'
AttributeErrorMsg ==
    <<"'", "N", "o", "n", "e", "T", "y", "p", "e", "'", " ",
      "o", "b", "j", "e", "c", "t", " ", "h", "a", "s">>
        \o <<" ", "n", "o", " ", "a", "t", "t", "r", "i", "b", "u", "t", "e", " ", "'", "f", "i", "n", "d", "'">>

ExcMessages(exc) ==
    CASE exc = "AssertionError" -> {AssertMsg}
      [] exc = "AttributeError" -> {AttributeErrorMsg}
      [] OTHER -> {EnvMsg}


(***************************************************************************)
(* User steps.                                                             *)
(***************************************************************************)
UserStep ==
    /\ pc \in UserPcs
    /\ steps < MaxUserSteps
    /\ steps' = steps + 1

\* Reading one of the metadata properties (lines 124-182).
UserReadProperty ==
    /\ UserStep
    /\ \E p \in Properties :
        last' = [NoStep EXCEPT !.op = p, !.value = ReadProperty(p),
                               !.unset = MetaUnset, !.at = pc]
    /\ UNCHANGED <<engine, config, flags, io, ctl, hist>>
    /\ UNCHANGED <<do_run_calls, close_calls, stop_calls, hec_attempts,
                   constructed>>
    /\ UNCHANGED <<bg, css>>

\* self.checkpointer
UserCheckpointer ==
    /\ UserStep
    /\ \E env \in CheckpointerEnv, handled \in BOOLEAN :
        LET r == checkpointer_prop(env) IN
        /\ _checkpointer' = r.handle
        /\ constructed' =
               [constructed EXCEPT !.checkpointer = Max(@, r.handle.id)]
        /\ last' = [NoStep EXCEPT !.op = "checkpointer", !.env = env,
                                  !.exc = r.exc, !.handle = r.handle,
                                  !.pre = _checkpointer,
                                  !.flag = use_kvstore_checkpoint,
                                  !.handled = ~Escapes(r.exc, handled),
                                  !.unset = MetaUnset, !.at = pc]
        /\ \E msg \in ExcMessages(r.exc) : EndStep(log, r.exc, handled, msg)
    /\ Touch("checkpointer")
    /\ UNCHANGED <<meta, _event_writer, _orphan_monitor, config, flags>>
    /\ UNCHANGED <<argv, payload, stdout, entry>>
    /\ UNCHANGED <<do_run_calls, close_calls, stop_calls, hec_attempts>>
    /\ UNCHANGED <<bg, css>>

\* self.event_writer
UserEventWriter ==
    /\ UserStep
    /\ \E env \in HECEnv, handled \in BOOLEAN :
        LET r == event_writer_prop(env) IN
        /\ _event_writer' = r.handle
        /\ constructed' =
               [constructed EXCEPT !.event_writer = Max(@, r.handle.id)]
        /\ hec_attempts' = hec_attempts + r.hec
        /\ last' = [NoStep EXCEPT !.op = "event_writer", !.env = env,
                                  !.exc = r.exc, !.handle = r.handle,
                                  !.pre = _event_writer,
                                  !.flag = use_hec_event_writer,
                                  !.hec = r.hec,
                                  !.handled = ~Escapes(r.exc, handled),
                                  !.logged = r.logged,
                                  !.unset = MetaUnset, !.at = pc]
        /\ \E msg \in ExcMessages(r.exc) :
              EndStep(log \o r.logged, r.exc, handled, msg)
    /\ Touch("event_writer")
    /\ UNCHANGED <<meta, _checkpointer, _orphan_monitor, config, flags>>
    /\ UNCHANGED <<argv, payload, stdout, entry>>
    /\ UNCHANGED <<do_run_calls, close_calls, stop_calls>>
    /\ UNCHANGED <<bg, css>>

\* self.register_orphan_handler(handler)
UserRegisterOrphanHandler ==
    /\ UserStep
    /\ \E handler \in Handlers :
        LET m == register_orphan_handler_op(handler) IN
        /\ _orphan_monitor' = m
        /\ constructed' =
               [constructed EXCEPT !.orphan_monitor = Max(@, m.id)]
        /\ last' = [NoStep EXCEPT !.op = "register_orphan_handler",
                                  !.value = handler,
                                  !.unset = MetaUnset, !.at = pc]
    /\ Touch("register_orphan_handler")
    /\ UNCHANGED <<meta, _checkpointer, _event_writer, config, flags, io, ctl>>
    /\ UNCHANGED <<user_end, entry>>
    /\ UNCHANGED <<do_run_calls, close_calls, stop_calls, hec_attempts>>
    /\ UNCHANGED <<bg, css>>

\* An assignment to use_kvstore_checkpoint or use_hec_event_writer.
UserSetFlag ==
    /\ UserStep
    /\ \/ /\ use_kvstore_checkpoint' = ~use_kvstore_checkpoint
          /\ UNCHANGED use_hec_event_writer
       \/ /\ use_hec_event_writer' = ~use_hec_event_writer
          /\ UNCHANGED use_kvstore_checkpoint
    /\ last' = [NoStep EXCEPT !.op = "set_flag", !.unset = MetaUnset,
                              !.at = pc]
    /\ UNCHANGED <<engine, config, io, ctl, hist>>
    /\ UNCHANGED <<do_run_calls, close_calls, stop_calls, hec_attempts,
                   constructed>>
    /\ UNCHANGED <<bg, css>>

(***************************************************************************)
(* execute() (lines 363-406).                                              *)
(***************************************************************************)
\* str(KeyError('session_key')) and the like.
KeyErrorMsg == <<"'", "k", "e", "y", "'">>

\* InputDefinition.parse / ValidationDefinition.parse followed by
\* _update_metadata: the metadata afterwards and the exception raised.
ParseAndUpdate(pl) ==
    IF ~pl.wellformed
    THEN [meta |-> meta, exc |-> "ParseError"]
    ELSE _update_metadata(meta, pl.metadata)

ParseMessages(exc) == IF exc = "KeyError" THEN {KeyErrorMsg} ELSE {EnvMsg}

\* execute() is entered with sys.argv = a.
Enter(a, mode) ==
    /\ argv' = a
    /\ entry' = Snapshot(mode)
    /\ touched' = {}

\* Lines 363-367: RunMode up to the call of do_run.
ExecuteRun ==
    /\ pc = "idle"
    /\ \E a \in Argvs : Len(a) = 1 /\ Enter(a, "run")
    /\ \E pl \in Payloads :
        LET r == ParseAndUpdate(pl) IN
        /\ payload' = pl
        /\ meta' = r.meta
        /\ IF r.exc = None
           THEN /\ pc' = "do_run"
                /\ do_run_calls' =
                       Append(do_run_calls,
                              [inputs |-> pl.items, meta |-> r.meta])
                /\ UNCHANGED <<log, ret, outcome, stderr>>
           ELSE /\ RunExcept(log)
                /\ UNCHANGED do_run_calls
    /\ UNCHANGED <<handles, config, flags, stdout, steps, last, user_end>>
    /\ UNCHANGED <<close_calls, stop_calls, hec_attempts, constructed>>
    /\ UNCHANGED <<bg, css>>

\* A SchemeMode that reads the payload and updates the metadata as the
\* other modes do.
ExecuteScheme_updates_metadata ==
    /\ pc = "idle"
    /\ \E a \in Argvs :
        /\ Len(a) > 1
        /\ lower(a[2]) = ArgScheme
        /\ Enter(a, "scheme")
    /\ \E pl \in WellFormedPayloads :
        /\ payload' = pl
        /\ meta' = _update_metadata(meta, pl.metadata).meta
    /\ pc' = "extra_arguments"
    /\ UNCHANGED <<handles, config, flags, ret, outcome, steps, last, user_end>>
    /\ UNCHANGED <<stdout, stderr, log>>
    /\ UNCHANGED <<do_run_calls, close_calls, stop_calls, hec_attempts,
                   constructed>>
    /\ UNCHANGED <<bg, css>>

\* Lines 382-383 and 242-248: SchemeMode up to the call of extra_arguments.
ExecuteScheme ==
    /\ pc = "idle"
    /\ \E a \in Argvs :
        /\ Len(a) > 1
        /\ lower(a[2]) = ArgScheme
        /\ Enter(a, "scheme")
    /\ pc' = "extra_arguments"
    /\ UNCHANGED <<engine, config, flags, ret, outcome, steps, last, user_end>>
    /\ UNCHANGED <<payload, stdout, stderr, log>>
    /\ UNCHANGED <<do_run_calls, close_calls, stop_calls, hec_attempts,
                   constructed>>
    /\ UNCHANGED <<bg, css>>

\* A ValidateMode that builds the event writer before it calls
\* do_validation.
ExecuteValidate_eager ==
    /\ pc = "idle"
    /\ \E a \in Argvs :
        /\ Len(a) > 1
        /\ lower(a[2]) # ArgScheme
        /\ lower(a[2]) = ArgValidate
        /\ Enter(a, "validate")
    /\ \E pl \in Payloads :
        LET r == ParseAndUpdate(pl) IN
        /\ payload' = pl
        /\ meta' = r.meta
        /\ IF r.exc = None
           THEN /\ pc' = "do_validation"
                /\ UNCHANGED <<log, ret, outcome, stderr>>
           ELSE \E msg \in ParseMessages(r.exc) : ValidateExcept(log, msg)
    /\ _event_writer' = IF IsNone(_event_writer)
                        THEN ClassicEventWriter(NewId("event_writer"))
                        ELSE _event_writer
    /\ constructed' = [constructed EXCEPT !.event_writer = 1]
    /\ UNCHANGED <<_checkpointer, _orphan_monitor, config, flags, stdout>>
    /\ UNCHANGED <<steps, last, user_end>>
    /\ UNCHANGED <<do_run_calls, close_calls, stop_calls, hec_attempts>>
    /\ UNCHANGED <<bg, css>>

\* Lines 387-391: ValidateMode up to the call of do_validation.
ExecuteValidate ==
    /\ pc = "idle"
    /\ \E a \in Argvs :
        /\ Len(a) > 1
        /\ lower(a[2]) # ArgScheme
        /\ lower(a[2]) = ArgValidate
        /\ Enter(a, "validate")
    /\ \E pl \in Payloads :
        LET r == ParseAndUpdate(pl) IN
        /\ payload' = pl
        /\ meta' = r.meta
        /\ IF r.exc = None
           THEN /\ pc' = "do_validation"
                /\ UNCHANGED <<log, ret, outcome, stderr>>
           ELSE \E msg \in ParseMessages(r.exc) : ValidateExcept(log, msg)
    /\ UNCHANGED <<handles, config, flags, stdout, steps, last, user_end>>
    /\ UNCHANGED <<do_run_calls, close_calls, stop_calls, hec_attempts,
                   constructed>>
    /\ UNCHANGED <<bg, css>>

\* Lines 402-406: any other first argument.
ExecuteInvalid ==
    /\ pc = "idle"
    /\ \E a \in Argvs :
        /\ Len(a) > 1
        /\ lower(a[2]) # ArgScheme
        /\ lower(a[2]) # ArgValidate
        /\ Enter(a, "invalid")
    /\ log' = Append(log, ErrorRecord("run with invalid arguments"))
    /\ ret' = 1
    /\ outcome' = Returned(1)
    /\ pc' = "done"
    /\ UNCHANGED <<engine, config, flags, payload, stdout, stderr>>
    /\ UNCHANGED <<steps, last, user_end>>
    /\ UNCHANGED <<do_run_calls, close_calls, stop_calls, hec_attempts,
                   constructed>>
    /\ UNCHANGED <<bg, css>>

\* The user operation returns.
UserReturn ==
    /\ \/ /\ pc = "do_run"
          \* lines 368-369; the finally block follows
          /\ log' = Append(log, InfoRecord("exit normally"))
          /\ ret' = 0
          /\ pc' = "finally_close"
          /\ user_end' = EndReturned
          /\ UNCHANGED <<stdout, outcome>>
       \/ /\ pc = "do_validation"
          \* line 392
          /\ ret' = 0
          /\ outcome' = Returned(0)
          /\ pc' = "done"
          /\ user_end' = EndReturned
          /\ UNCHANGED <<stdout, log>>
       \/ /\ pc = "extra_arguments"
          \* lines 248-263 and 383-385
          /\ \E arguments \in ArgLists :
                LET r == _do_scheme(arguments) IN
                /\ user_end' = [EndReturned EXCEPT !.value = arguments]
                /\ IF r.exc = None
                   THEN /\ stdout' = Append(stdout, r.scheme)
                        /\ ret' = 0
                        /\ outcome' = Returned(0)
                        /\ pc' = "done"
                        /\ UNCHANGED log
                   ELSE /\ SchemeExcept(log, r.exc)
                        /\ UNCHANGED stdout
    /\ UNCHANGED <<engine, config, flags, argv, payload, stderr>>
    /\ UNCHANGED <<steps, last, entry, touched>>
    /\ UNCHANGED <<do_run_calls, close_calls, stop_calls, hec_attempts,
                   constructed>>
    /\ UNCHANGED <<bg, css>>

\* The messages of the exceptions a user operation raises: execute() reads
\* the message in ValidateMode only (str(e), line 398).
RaiseMessages == IF pc = "do_validation" THEN Messages ELSE {EnvMsg}

\* The user operation raises an exception with message msg.
UserRaise ==
    /\ pc \in UserPcs \ {"idle"}
    /\ \E msg \in RaiseMessages :
        /\ Propagate(log, "Exception", msg)
        /\ user_end' = EndRaised(msg)
    /\ UNCHANGED <<engine, config, flags, argv, payload, stdout>>
    /\ UNCHANGED <<steps, last, entry, touched>>
    /\ UNCHANGED <<do_run_calls, close_calls, stop_calls, hec_attempts,
                   constructed>>
    /\ UNCHANGED <<bg, css>>

\* What close() of the event writer can do: for the HTTP-collector backend,
\* return or raise; the classic backend has no failure mode.
CloseRaises(writer) ==
    IF writer.kind = "HECEventWriter" THEN BOOLEAN ELSE {FALSE}

\* Lines 376-377, the first statement of the finally block.  An exception
\* of close() leaves execute() in place of the value of the return
\* statement.
FinallyClose ==
    /\ pc = "finally_close"
    /\ IF ~IsNone(_event_writer)
       THEN /\ close_calls' = close_calls + 1
            /\ \E raises \in CloseRaises(_event_writer) :
                IF raises
                THEN pc' = "done" /\ outcome' = Raised("CloseError")
                ELSE pc' = "finally_stop" /\ UNCHANGED outcome
       ELSE /\ pc' = "finally_stop"
            /\ UNCHANGED <<close_calls, outcome>>
    /\ UNCHANGED <<engine, config, flags, io, ret, steps, last, hist>>
    /\ UNCHANGED <<do_run_calls, stop_calls, hec_attempts, constructed>>
    /\ UNCHANGED <<bg, css>>

\* Lines 379-380, the second statement of the finally block, and the
\* return of the value decided before it.
FinallyStop ==
    /\ pc = "finally_stop"
    /\ IF ~IsNone(_orphan_monitor)
       THEN /\ stop_calls' = stop_calls + 1
            /\ _orphan_monitor' = MonitorStop(_orphan_monitor)
       ELSE UNCHANGED <<stop_calls, _orphan_monitor>>
    /\ outcome' = Returned(ret)
    /\ pc' = "done"
    /\ UNCHANGED <<meta, _checkpointer, _event_writer, config, flags, io, ret>>
    /\ UNCHANGED <<steps, last, hist>>
    /\ UNCHANGED <<do_run_calls, close_calls, hec_attempts, constructed>>
    /\ UNCHANGED <<bg, css>>

(***************************************************************************)
(* Teardown signals (lines 315-330) and the orphan monitor's thread.       *)
(***************************************************************************)
\* What register_teardown_handler is called with: a handler and its args.
TeardownRegistrations ==
    { [handler |-> "handler1", args |-> <<"arg1">>],
      [handler |-> "handler2", args |-> <<>>] }

\* A closure that calls the handler without the arguments.
_teardown_handler_drops_args(handler, args) ==
    [handler |-> handler, args |-> <<>>]

\* Lines 327-328: the closure that calls handler(*args).
_teardown_handler(handler, args) == [handler |-> handler, args |-> args]

\* utils.handle_teardown_signals(callback): callback becomes the handler of
\* the teardown signals, in place of the one installed before.
handle_teardown_signals(installed, callback) == <<callback>>

\* self.register_teardown_handler(handler, *args)
UserRegisterTeardownHandler ==
    /\ UserStep
    /\ \E r \in TeardownRegistrations :
        /\ teardown' = handle_teardown_signals(
                            teardown, _teardown_handler(r.handler, r.args))
        /\ registered' = Append(registered, r)
        /\ last' = [NoStep EXCEPT !.op = "register_teardown_handler",
                                  !.value = r.handler,
                                  !.unset = MetaUnset, !.at = pc]
    /\ UNCHANGED <<engine, config, flags, io, ctl, hist>>
    /\ UNCHANGED <<do_run_calls, close_calls, stop_calls, hec_attempts,
                   constructed>>
    /\ UNCHANGED <<teardown_calls, signals, orphan_calls, css>>

\* A teardown signal is delivered: each installed closure runs.
DeliverSignal ==
    /\ teardown # <<>>
    /\ signals < MaxSignals
    /\ signals' = signals + 1
    /\ teardown_calls' = teardown_calls \o teardown
    /\ UNCHANGED <<engine, config, flags, io, ctl, obs>>
    /\ UNCHANGED <<teardown, registered, orphan_calls, css>>

\* The monitor's background loop finds the parent gone while the monitor
\* is Running: _orphan_handler (lines 344-345) calls the handler.
OrphanCheck ==
    /\ _orphan_monitor.state = "Running"
    /\ Len(orphan_calls) < MaxOrphanCalls
    /\ orphan_calls' =
           Append(orphan_calls,
                  [handler |-> _orphan_monitor.callback,
                   closed |-> close_calls > 0,
                   stopped |-> stop_calls > 0])
    /\ _orphan_monitor' = MonitorDetect(_orphan_monitor)
    /\ UNCHANGED <<meta, _checkpointer, _event_writer, config, flags, io, ctl>>
    /\ UNCHANGED obs
    /\ UNCHANGED <<teardown, registered, teardown_calls, signals, css>>

Next ==
    \/ UserReadProperty
    \/ UserCheckpointer
    \/ UserEventWriter
    \/ UserRegisterOrphanHandler
    \/ UserSetFlag
    \/ UserReturn
    \/ UserRaise
    \/ ExecuteRun
    \/ ExecuteScheme
    \/ ExecuteValidate
    \/ ExecuteInvalid
    \/ FinallyClose
    \/ FinallyStop

Spec == Init /\ [][Next]_vars

\* RunMode together with what runs beside its main thread: the orphan
\* monitor's background loop and the delivery of teardown signals.  The
\* user steps are those that create what the cleanup releases and those
\* that register handlers.
NextConcurrent ==
    \/ UserEventWriter
    \/ UserRegisterOrphanHandler
    \/ UserRegisterTeardownHandler
    \/ UserReturn
    \/ UserRaise
    \/ ExecuteRun
    \/ FinallyClose
    \/ FinallyStop
    \/ DeliverSignal
    \/ OrphanCheck

SpecConcurrent == Init /\ [][NextConcurrent]_vars

(***************************************************************************)
(* net_utils.check_css_params (src/solnlib/net_utils.py, lines 140-169):   *)
(* one call of a wrapped function.                                         *)
(***************************************************************************)
\* The values passed as arguments.
CssValues == {"http", "HTTPS", "ftp", "8089", "0", "65536"}

\* str.lower() on CssValues
str_lower(v) == IF v = "HTTPS" THEN "https" ELSE v

\* Line 137
is_valid_scheme(scheme) == str_lower(scheme) \in {"http", "https"}

\* int(port) for the numerals of CssValues; every other value raises
\* ValueError.
Numerals == {"8089", "0", "65536"}
int_of(v) == CASE v = "8089" -> 8089 [] v = "0" -> 0 [] v = "65536" -> 65536

\* Lines 121-124
is_valid_port(port) ==
    IF port \in Numerals
    THEN 0 < int_of(port) /\ int_of(port) <= 65535
    ELSE FALSE

\* func(value), line 165
call(func, value) ==
    CASE func = "is_valid_scheme" -> is_valid_scheme(value)
      [] func = "is_valid_port" -> is_valid_port(value)

\* validators.items(): the keyword arguments of check_css_params, in order.
ValidatorLists ==
    { << <<"scheme", "is_valid_scheme">> >>,
      << <<"port", "is_valid_port">> >>,
      << <<"scheme", "is_valid_scheme">>, <<"port", "is_valid_port">> >> }

\* The wrapped functions: def f(scheme, port), def f(scheme, port="0") and
\* def f(scheme: str, port: str = "0"); each returns a value of its own.
WrappedFunctions ==
    { [name |-> "f1", args |-> <<"scheme", "port">>, defaults |-> <<>>,
       annotations |-> FALSE],
      [name |-> "f2", args |-> <<"scheme", "port">>, defaults |-> <<"0">>,
       annotations |-> FALSE],
      [name |-> "f3", args |-> <<"scheme", "port">>, defaults |-> <<"0">>,
       annotations |-> TRUE] }

CssParams == {"scheme", "port"}

\* The interpreters: inspect.getargspec exists up to Python 3.10 and is
\* removed in Python 3.11.
Pythons == {"3.10", "3.11"}

\* inspect.getargspec(f), line 154: up to 3.10 it raises ValueError for a
\* function with annotations; from 3.11 the attribute does not exist.
getargspec(f, python) ==
    IF python = "3.11"
    THEN [exc |-> "AttributeError", args |-> <<>>, defaults |-> <<>>]
    ELSE IF f.annotations
    THEN [exc |-> "ValueError", args |-> <<>>, defaults |-> <<>>]
    ELSE [exc |-> None, args |-> f.args, defaults |-> f.defaults]

Min(a, b) == IF a <= b THEN a ELSE b
IndexOf(seq, x) == CHOOSE i \in 1..Len(seq) : seq[i] = x

\* Line 155: dict(list(zip(arg_spec.args, args)) + list(kwargs.items()))
actual_args(arg_spec, args, kwargs) ==
    LET zipped == {arg_spec.args[i] :
                       i \in 1..Min(Len(arg_spec.args), Len(args))} IN
    [n \in zipped \cup DOMAIN kwargs |->
        IF n \in DOMAIN kwargs THEN kwargs[n]
                               ELSE args[IndexOf(arg_spec.args, n)]]

\* Lines 156-157: the parameters that have a default, with the default.
optional(arg_spec) ==
    LET n == Len(arg_spec.args)
        k == Len(arg_spec.defaults) IN
    [a \in {arg_spec.args[i] : i \in (n - k + 1)..n} |->
        arg_spec.defaults[IndexOf(arg_spec.args, a) - (n - k)]]

\* Lines 159-166: the argument whose validator rejects first, or None.
RECURSIVE validate(_, _, _)
validate(items, actual, opt) ==
    IF items = <<>> THEN None
    ELSE LET arg == Head(items)[1]
             func == Head(items)[2] IN
         IF arg \notin DOMAIN actual
         THEN validate(Tail(items), actual, opt)
         ELSE IF arg \in DOMAIN opt /\ opt[arg] = actual[arg]
         THEN validate(Tail(items), actual, opt)
         ELSE IF ~call(func, actual[arg])
         THEN arg
         ELSE validate(Tail(items), actual, opt)

\* Whether f(*args, **kwargs) binds: no surplus positional argument, no
\* unknown keyword, no parameter given twice, none without default missing.
Binds(f, args, kwargs) ==
    /\ Len(args) <= Len(f.args)
    /\ \A n \in DOMAIN kwargs :
          /\ \E i \in 1..Len(f.args) : f.args[i] = n
          /\ IndexOf(f.args, n) > Len(args)
    /\ \A i \in 1..(Len(f.args) - Len(f.defaults)) :
          i <= Len(args) \/ f.args[i] \in DOMAIN kwargs

NoResult ==
    [exc |-> None, arg |-> None, called |-> 0, with |-> <<>>,
     value |-> None]

\* Line 167: f(*args, **kwargs)
f_call(f, args, kwargs) ==
    IF Binds(f, args, kwargs)
    THEN [NoResult EXCEPT !.called = 1, !.with = <<args, kwargs>>,
                          !.value = f.name]
    ELSE [NoResult EXCEPT !.exc = "TypeError", !.called = 1,
                          !.with = <<args, kwargs>>]

\* Lines 153-167
wrapper(f, validators, args, kwargs, python) ==
    LET arg_spec == getargspec(f, python) IN
    IF arg_spec.exc # None
    THEN [NoResult EXCEPT !.exc = arg_spec.exc]
    ELSE LET rejected == validate(validators,
                                  actual_args(arg_spec, args, kwargs),
                                  optional(arg_spec)) IN
         IF rejected # None
         THEN [NoResult EXCEPT !.exc = "ValueError", !.arg = rejected]
         ELSE f_call(f, args, kwargs)

\* The calls of the model: positional arguments and keyword arguments.
CssArgs == UNION { [1..n -> CssValues] : n \in 0..MaxPositional }
CssKwargs == UNION { [D -> CssValues] : D \in SUBSET CssParams }

\* A call of a wrapped function, beside an engine that is not run.
InitCss ==
    /\ InitEngine({Subclass(TRUE, TRUE, "hec1", FALSE, FALSE)})
    /\ \E f \in WrappedFunctions, validators \in ValidatorLists,
          args \in CssArgs, kwargs \in CssKwargs, python \in Pythons :
          css = [state |-> "ready", f |-> f, validators |-> validators,
                 args |-> args, kwargs |-> kwargs, python |-> python,
                 result |-> NoResult]

\* The wrapped function is called.
CallWrapped ==
    /\ css.state = "ready"
    /\ css' = [css EXCEPT !.state = "returned",
                          !.result = wrapper(css.f, css.validators, css.args,
                                             css.kwargs, css.python)]
    /\ UNCHANGED <<engine, config, flags, io, ctl, obs, bg>>

NextCss == CallWrapped

SpecCss == InitCss /\ [][NextCss]_vars


(***************************************************************************)
(* The modes of execute(), by the arguments it was called with.            *)
(***************************************************************************)
\* The same object, whatever its state.
SameObject(a, b) == a.kind = b.kind /\ a.id = b.id

RunMode == Len(argv) = 1
ValidateMode == Len(argv) > 1 /\ lower(argv[2]) = ArgValidate

MetaKeys == {"server_host", "server_uri", "session_key", "checkpoint_dir"}

WellFormed(pl) == pl.wellformed /\ DOMAIN pl.metadata = MetaKeys

Finished == pc = "done"

(***************************************************************************)
(* RunMode: cleanup and exit code.                                         *)
(***************************************************************************)
\* C1: in RunMode, when the payload parses and do_run raises, execute()
\* returns 1, close() was called exactly once if there is an event writer
\* (never otherwise) and stop() exactly once if there is an orphan monitor
\* (never otherwise).
C1_FailedRunReturns1AndCleansUp ==
    (Finished /\ RunMode /\ Len(do_run_calls) > 0 /\ user_end.how = "raised")
        => /\ outcome = Returned(1)
           /\ close_calls = (IF IsNone(_event_writer) THEN 0 ELSE 1)
           /\ stop_calls = (IF IsNone(_orphan_monitor) THEN 0 ELSE 1)

\* C2: in RunMode with a well-formed payload, do_run is called exactly
\* once, with the stanzas of the payload and on an engine whose metadata is
\* that of the payload, and execute() returns 0 when do_run returns.
C2_RunCallsDoRunOnceAndReturns0 ==
    (RunMode /\ WellFormed(payload))
        => /\ Len(do_run_calls) = 1
           /\ do_run_calls[1].inputs = payload.items
           /\ do_run_calls[1].meta.server_host_name = payload.metadata.server_host
           /\ do_run_calls[1].meta.server_uri = payload.metadata.server_uri
           /\ do_run_calls[1].meta.session_key = payload.metadata.session_key
           /\ do_run_calls[1].meta.checkpoint_dir = payload.metadata.checkpoint_dir
           /\ (Finished /\ user_end.how = "returned") => outcome = Returned(0)

\* C3: in RunMode, when execute() has finished and an orphan monitor was
\* started, stop() has been called, also when close() raised.
C3_MonitorStoppedOnEveryPath ==
    (Finished /\ RunMode /\ ~IsNone(_orphan_monitor)) => stop_calls >= 1

\* C4: in RunMode, when do_run returned, execute() returns 0 and raises
\* nothing, whatever close() and stop() do.
C4_ReleaseErrorKeepsExitCode ==
    (Finished /\ RunMode /\ user_end.how = "returned")
        => outcome.kind = "returned" /\ outcome.value = 0


(***************************************************************************)
(* Event writer selection.                                                 *)
(***************************************************************************)
\* The last user step was an access of event_writer that found no writer
\* memoized and the HEC backend selected with its input name set.
HECSelected ==
    /\ last.op = "event_writer"
    /\ IsNone(last.pre)
    /\ last.flag
    /\ hec_input_name # ""

FallbackRecords ==
    {i \in DOMAIN log : log[i].msg = "Failed to init HECEventWriter"}

HECFallback(level) ==
    (HECSelected /\ last.env = "HTTPError")
        => /\ last.exc = None
           /\ Len(last.logged) = 1
           /\ last.logged[1].level = level
           /\ Cardinality(FallbackRecords) = 1
           /\ last.handle.kind = "ClassicEventWriter"
           /\ _event_writer = last.handle

\* C5 as stated: when the HEC backend is selected and its constructor
\* raises the HTTP error, the access of event_writer raises nothing, logs
\* exactly one record, a warning, and memoizes the classic writer.
C5_FallbackLogsOneWarning == HECFallback("WARNING")

\* C5 as amended: the one record logged is an error record.
C5_FallbackLogsOneError == HECFallback("ERROR")

C5_Witness ==
    /\ HECSelected
    /\ last.env = "HTTPError"
    /\ last.at = "do_run"
    /\ _event_writer.kind = "ClassicEventWriter"

\* C6: when the HEC backend is selected and its construction raises
\* anything but the HTTP error (the assertion on hec_input_name included),
\* the access raises that error, logs nothing and leaves the handle unset
\* with no writer constructed; if do_run lets the error escape, execute()
\* returns 1 and close() is never called.
SinkConstructionFails ==
    /\ last.op = "event_writer"
    /\ IsNone(last.pre)
    /\ last.flag
    /\ hec_input_name = "" \/ last.env = "Error"

C6_OtherSinkErrorsPropagate ==
    SinkConstructionFails
        => /\ last.exc = (IF hec_input_name = "" THEN "AssertionError"
                          ELSE "Error")
           /\ last.logged = <<>>
           /\ IsNone(_event_writer)
           /\ constructed.event_writer = 0
           /\ (last.at = "do_run" /\ ~last.handled)
                  => /\ pc \in {"finally_close", "finally_stop", "done"}
                     /\ ret = 1
                     /\ close_calls = 0
                     /\ Finished => outcome = Returned(1)

C6_Witness ==
    /\ SinkConstructionFails
    /\ last.env = "Error"
    /\ hec_input_name # ""
    /\ last.at = "do_run"
    /\ ~last.handled
    /\ ~IsNone(_orphan_monitor)
    /\ Finished

(***************************************************************************)
(* Memoization of the handles.                                             *)
(***************************************************************************)
\* C7: an access of checkpointer or event_writer that finds a handle
\* memoized returns that handle, constructs nothing and raises nothing,
\* whatever the flags and the metadata are by then; no second checkpointer
\* or event writer is ever constructed.
C7_HandlesAreMemoized ==
    /\ (last.op = "checkpointer" /\ ~IsNone(last.pre))
           => /\ last.exc = None
              /\ last.handle = last.pre
              /\ _checkpointer = last.pre
    /\ (last.op = "event_writer" /\ ~IsNone(last.pre))
           => /\ last.exc = None
              /\ last.handle = last.pre
              /\ _event_writer = last.pre
              /\ last.hec = 0
    /\ constructed.checkpointer <= 1
    /\ constructed.event_writer <= 1
    /\ ~IsNone(_checkpointer) => _checkpointer.id = 1
    /\ ~IsNone(_event_writer) => _event_writer.id = 1

\* An access after the fallback, with HEC selected and constructible, and
\* an access of the checkpointer after its flag changed.
C7_Witness ==
    /\ last.op = "event_writer"
    /\ last.pre.kind = "ClassicEventWriter"
    /\ last.flag
    /\ hec_input_name # ""
    /\ last.env = "ok"
    /\ hec_attempts = 1
    /\ ~IsNone(_checkpointer)

\* C8: a read of a metadata property on an engine whose metadata was never
\* updated raises an error, and no checkpointer or event writer is built
\* from the unset metadata.
Args(h) == {h.args[i] : i \in DOMAIN h.args}

C8_ReadBeforeUpdateFails ==
    last.unset
        => /\ last.op \in Properties => last.exc # None
           /\ (last.op \in {"checkpointer", "event_writer"}
                   /\ IsNone(last.pre) /\ ~IsNone(last.handle))
                  => None \notin Args(last.handle)


(***************************************************************************)
(* ValidateMode.                                                           *)
(***************************************************************************)
\* "<error><message>" msg "</message></error>", character by character.
MessageOpen ==
    <<"<">> \o TagError \o <<">", "<">> \o TagMessage \o <<">">>
MessageClose ==
    <<"<", "/">> \o TagMessage \o <<">", "<", "/">> \o TagError \o <<">">>
EmptyMessageDocument ==
    <<"<">> \o TagError \o <<">", "<">> \o TagMessage \o <<" ", "/", ">">>
        \o <<"<", "/">> \o TagError \o <<">">>

LiteralErrorDocument(msg) == MessageOpen \o msg \o MessageClose

StartsWith(s, p) == Len(s) >= Len(p) /\ SubSeq(s, 1, Len(p)) = p
EndsWith(s, p) ==
    Len(s) >= Len(p) /\ SubSeq(s, Len(s) - Len(p) + 1, Len(s)) = p
Drop(s, n) == SubSeq(s, n + 1, Len(s))

\* The text an XML parser reads from character data: [ok, text], ok false
\* when the data is not well formed.
RECURSIVE CharacterData(_)
Prepend(c, r) == [ok |-> r.ok, text |-> IF r.ok THEN <<c>> \o r.text ELSE <<>>]
CharacterData(t) ==
    IF t = <<>> THEN [ok |-> TRUE, text |-> <<>>]
    ELSE IF Head(t) = "&"
    THEN CASE StartsWith(t, <<"&", "a", "m", "p", ";">>) ->
                  Prepend("&", CharacterData(Drop(t, 5)))
           [] StartsWith(t, <<"&", "l", "t", ";">>) ->
                  Prepend("<", CharacterData(Drop(t, 4)))
           [] StartsWith(t, <<"&", "g", "t", ";">>) ->
                  Prepend(">", CharacterData(Drop(t, 4)))
           [] OTHER -> [ok |-> FALSE, text |-> <<>>]
    ELSE IF Head(t) = "<"
    THEN [ok |-> FALSE, text |-> <<>>]
    ELSE Prepend(Head(t), CharacterData(Tail(t)))

\* The message an XML parser reads from an error document.
ParseErrorDocument(doc) ==
    IF doc = EmptyMessageDocument
    THEN [ok |-> TRUE, text |-> <<>>]
    ELSE IF /\ Len(doc) >= Len(MessageOpen) + Len(MessageClose)
            /\ StartsWith(doc, MessageOpen)
            /\ EndsWith(doc, MessageClose)
    THEN CharacterData(SubSeq(doc, Len(MessageOpen) + 1,
                              Len(doc) - Len(MessageClose)))
    ELSE [ok |-> FALSE, text |-> <<>>]

Plain(msg) ==
    msg # <<>> /\ \A i \in DOMAIN msg : msg[i] \notin {"&", "<", ">"}

ValidationEnded(how) == Finished /\ user_end.how = how /\ ValidateMode

\* C9 as stated: when the validation operation raises an error with
\* message m, standard error holds exactly <error><message>m</message>
\* </error> and execute() returns 1; when it returns, execute() returns 0
\* and standard error is empty.
C9_ErrorDocumentIsLiteral ==
    /\ ValidationEnded("raised")
           => /\ stderr = LiteralErrorDocument(user_end.msg)
              /\ outcome = Returned(1)
    /\ ValidationEnded("returned")
           => /\ stderr = <<>>
              /\ outcome = Returned(0)

\* C9 as amended: standard error holds the XML serialization of that
\* document: it parses back to the message m, and is the literal text
\* only for a non-empty m without the characters & < >.
C9_ErrorDocumentIsSerialized ==
    /\ ValidationEnded("raised")
           => /\ ParseErrorDocument(stderr) = [ok |-> TRUE, text |-> user_end.msg]
              /\ (stderr = LiteralErrorDocument(user_end.msg))
                     <=> Plain(user_end.msg)
              /\ outcome = Returned(1)
    /\ ValidationEnded("returned")
           => /\ stderr = <<>>
              /\ outcome = Returned(0)

C9_Witness ==
    /\ ValidationEnded("raised")
    /\ user_end.msg = <<"a", "&", ">">>
    /\ stderr # LiteralErrorDocument(user_end.msg)
    /\ outcome = Returned(1)

\* C10 as stated: when a ValidateMode execute() has returned, the engine
\* has no checkpointer, no event writer and no orphan monitor.
C10_ValidateModeLeavesHandlesUnset ==
    (Finished /\ ValidateMode)
        => /\ IsNone(_checkpointer)
           /\ IsNone(_event_writer)
           /\ IsNone(_orphan_monitor)

\* C10 as amended: in ValidateMode the engine itself creates none of the
\* three: each handle is as it was when execute() was called unless the
\* validation operation accessed that property or registered an orphan
\* handler.
C10_ValidateModeCreatesNothingItself ==
    ValidateMode
        => /\ "checkpointer" \notin touched
                  => _checkpointer = entry.checkpointer
           /\ "event_writer" \notin touched
                  => _event_writer = entry.event_writer
           /\ "register_orphan_handler" \notin touched
                  => SameObject(_orphan_monitor, entry.orphan_monitor)

\* A validation operation that accessed event_writer only.
C10_Witness ==
    /\ Finished
    /\ ValidateMode
    /\ touched = {"event_writer"}
    /\ IsNone(entry.event_writer)
    /\ ~IsNone(_event_writer)
    /\ IsNone(_checkpointer)
    /\ IsNone(_orphan_monitor)


(***************************************************************************)
(* SchemeMode and the selection of the mode.                               *)
(***************************************************************************)
SchemeMode == Len(argv) > 1 /\ lower(argv[2]) = ArgScheme

SchemeEmitted == Finished /\ entry.mode = "scheme" /\ Len(stdout) = 1

\* C11: the scheme written in SchemeMode has the single-instance flag of
\* use_single_instance, the external-validation flag of
\* use_external_validation, and streaming mode xml.
C11_SchemeCarriesBothFlags ==
    SchemeEmitted
        => /\ stdout[1].use_single_instance = use_single_instance
           /\ stdout[1].use_external_validation = use_external_validation
           /\ stdout[1].streaming_mode = "xml"

\* The value a descriptor gives for a field, or the default of the field.
Given(d, key, default) == IF key \in DOMAIN d THEN d[key] ELSE default

SameArgument(arg, d) ==
    /\ arg.name = d["name"]
    /\ arg.title = Given(d, "title", "None")
    /\ arg.description = Given(d, "description", "None")
    /\ arg.validation = Given(d, "validation", "None")
    /\ arg.data_type = Given(d, "data_type", "string")
    /\ arg.required_on_edit = Given(d, "required_on_edit", FALSE)
    /\ arg.required_on_create = Given(d, "required_on_create", FALSE)

\* C12: the arguments of the written scheme are those extra_arguments()
\* returned: as many, in the same order, each with the descriptor's name
\* and the descriptor's value, or else the default, of every other field.
C12_SchemeArgumentsAreTheDescriptors ==
    SchemeEmitted
        => /\ Len(stdout[1].arguments) = Len(user_end.value)
           /\ \A i \in 1..Len(user_end.value) :
                  SameArgument(stdout[1].arguments[i], user_end.value[i])

C12_Witness ==
    /\ SchemeEmitted
    /\ Len(user_end.value) = 2
    /\ user_end.value[1]["name"] = "arg2"
    /\ user_end.value[1]["required_on_create"]
    /\ "required_on_edit" \notin DOMAIN user_end.value[1]
    /\ stdout[1].arguments[2].name = "arg1"

\* Two characters that are the same letter.
Letters ==
    { <<"a", "A">>, <<"c", "C">>, <<"e", "E">>, <<"h", "H">>,
      <<"m", "M">>, <<"s", "S">>, <<"v", "V">> }

SameLetter(c, d) == c = d \/ <<c, d>> \in Letters \/ <<d, c>> \in Letters

EqualInAnyCase(s, t) ==
    Len(s) = Len(t) /\ \A i \in 1..Len(s) : SameLetter(s[i], t[i])

Called == entry.mode # "none"

\* C13: the mode execute() takes depends on the arguments only: RunMode
\* without arguments, SchemeMode for a first argument --scheme in any
\* letter case, ValidateMode for --validate-arguments in any letter case;
\* for any other first argument execute() returns 1, has written nothing
\* to standard output or standard error, has read no input and has left
\* the metadata and the three handles as they were.
C13_ModeFromArgumentsAlone ==
    Called
        => /\ entry.mode = "run" <=> Len(argv) = 1
           /\ entry.mode = "scheme"
                  <=> (Len(argv) > 1 /\ EqualInAnyCase(argv[2], ArgScheme))
           /\ entry.mode = "validate"
                  <=> (Len(argv) > 1 /\ EqualInAnyCase(argv[2], ArgValidate))
           /\ entry.mode = "invalid"
                  => /\ outcome = Returned(1)
                     /\ Finished
                     /\ stdout = <<>>
                     /\ stderr = <<>>
                     /\ payload = NoPayload
                     /\ meta = entry.meta
                     /\ _checkpointer = entry.checkpointer
                     /\ _event_writer = entry.event_writer
                     /\ SameObject(_orphan_monitor, entry.orphan_monitor)

\* An upper-case --SCHEME has selected SchemeMode.
C13_Witness ==
    /\ Called
    /\ argv = <<Prog, ArgSchemeUpper>>
    /\ entry.mode = "scheme"
    /\ pc = "extra_arguments"

C15_ExecuteAlwaysReturnsAnExitCode ==
    Finished => (outcome.kind = "returned" /\ outcome.value \in {0, 1})


(***************************************************************************)
(* Handlers: the orphan monitor and the teardown signals.                  *)
(***************************************************************************)
RegisterStep ==
    steps' = steps + 1 /\ last'.op = "register_orphan_handler"

\* C16: over any sequence of register_orphan_handler calls at most one
\* orphan monitor is constructed; the first call starts it with the
\* handler of that call, and a later call changes nothing: no second
\* monitor, no new handler, no restart.
C16_AtMostOneMonitor ==
    [][ /\ constructed'.orphan_monitor <= 1
        /\ (RegisterStep /\ IsNone(_orphan_monitor))
               => /\ ~IsNone(_orphan_monitor')
                  /\ _orphan_monitor'.callback = last'.value
                  /\ _orphan_monitor'.state = "Running"
        /\ (RegisterStep /\ ~IsNone(_orphan_monitor))
               => _orphan_monitor' = _orphan_monitor
        /\ ~IsNone(_orphan_monitor)
               => /\ SameObject(_orphan_monitor', _orphan_monitor)
                  /\ _orphan_monitor'.callback = _orphan_monitor.callback
      ]_vars

\* A second call, with another handler, left the monitor of the first.
C16_Witness ==
    /\ last.op = "register_orphan_handler"
    /\ ~IsNone(_orphan_monitor)
    /\ last.value # _orphan_monitor.callback
    /\ constructed.orphan_monitor = 1

\* C17: with the monitor's check running beside the main thread, the
\* orphan handler is invoked at most once: either it is invoked, the
\* monitor is Stopped and a later stop() changes nothing, or stop() came
\* first and the handler is never invoked.
C17_OrphanHandlerAtMostOnce ==
    /\ Len(orphan_calls) <= 1
    /\ \A i \in 1..Len(orphan_calls) : ~orphan_calls[i].stopped
    /\ Len(orphan_calls) = 1 => _orphan_monitor.state = "Stopped"

\* The handler was invoked during the run, and cleanup called stop().
C17_Witness ==
    /\ Finished
    /\ RunMode
    /\ Len(orphan_calls) = 1
    /\ stop_calls = 1
    /\ _orphan_monitor.state = "Stopped"

\* C18: a teardown signal invokes the handler of the latest
\* register_teardown_handler call, once, with the arguments of that call,
\* and no handler of an earlier call.
C18_SignalInvokesLatestHandler ==
    [][ signals' = signals + 1
            => teardown_calls' =
                   Append(teardown_calls, registered[Len(registered)])
      ]_vars

\* Two different registrations, then a signal.
C18_Witness ==
    /\ Len(registered) = 2
    /\ registered[1] # registered[2]
    /\ signals = 1
    /\ teardown_calls = <<registered[2]>>

\* C19: in RunMode, when the payload does not parse or lacks a metadata
\* field, execute() returns 1 and raises nothing, do_run is never called,
\* and the cleanup ran: close() for an event writer, stop() for a monitor.
C19_ParseFailureReturns1 ==
    (Finished /\ RunMode /\ ~WellFormed(payload))
        => /\ outcome = Returned(1)
           /\ do_run_calls = <<>>
           /\ ~IsNone(_event_writer) => close_calls = 1
           /\ ~IsNone(_orphan_monitor) => stop_calls = 1

\* C20: in RunMode the orphan handler is never invoked after cleanup has
\* closed the event writer.
C20_NoOrphanCallAfterClose ==
    RunMode => \A i \in 1..Len(orphan_calls) : ~orphan_calls[i].closed


(***************************************************************************)
(* check_css_params.                                                       *)
(***************************************************************************)
\* The parameters of the call's function that have a default.
HasDefault(f, name) ==
    \E i \in 1..Len(f.args) :
        f.args[i] = name /\ i > Len(f.args) - Len(f.defaults)

DefaultOf(f, name) ==
    f.defaults[IndexOf(f.args, name) - (Len(f.args) - Len(f.defaults))]

\* The argument was supplied, by position or by keyword, and its value.
Supplied(c, name) ==
    \/ name \in DOMAIN c.kwargs
    \/ \E i \in 1..Len(c.args) : i <= Len(c.f.args) /\ c.f.args[i] = name

Passed(c, name) ==
    IF name \in DOMAIN c.kwargs THEN c.kwargs[name]
                               ELSE c.args[IndexOf(c.f.args, name)]

\* A validator that applies to the call rejects the value passed.
Rejects(c) ==
    \E i \in 1..Len(c.validators) :
        LET name == c.validators[i][1]
            func == c.validators[i][2] IN
        /\ Supplied(c, name)
        /\ ~(HasDefault(c.f, name) /\ DefaultOf(c.f, name) = Passed(c, name))
        /\ ~call(func, Passed(c, name))

\* C21: a call of a wrapped function raises ValueError without calling the
\* function when the validator of a supplied argument, whose value is not
\* the parameter's default, rejects the value; otherwise the function is
\* called once with the arguments of the call and its result is returned.
C21_ValidatorsGuardTheCall ==
    (css.state = "returned" /\ Binds(css.f, css.args, css.kwargs))
        => IF Rejects(css)
           THEN /\ css.result.exc = "ValueError"
                /\ css.result.called = 0
           ELSE /\ css.result.exc = "None"
                /\ css.result.called = 1
                /\ css.result.with = <<css.args, css.kwargs>>
                /\ css.result.value = css.f.name

\* The same for a function without annotations on an interpreter that
\* has inspect.getargspec.
C21_HoldsWhereGetargspecWorks ==
    (css.python = "3.10" /\ css.state = "returned" /\ ~css.f.annotations)
        => C21_ValidatorsGuardTheCall

====
